---- MODULE Spec2Model ----
(***************************************************************************)
(* A state-machine model of the 3D primitive intersection page            *)
(* (src/3d-primitive-intersection/app/page.tsx): the Component's React     *)
(* state, the Scene's refs, memoized geometries and materials, the frame   *)
(* callback, the effects run at a commit, the canvas click handler and     *)
(* the handlers the Scene registers on the transform gizmo.                *)
(*                                                                         *)
(* Conventions.                                                            *)
(*  - st is the Component state with every queued setState applied; props  *)
(*    is the snapshot of the last committed render, which is what every    *)
(*    closure (frame callback, handlers) reads.  Render commits st.        *)
(*  - Lengths are integers in tenths of a millimetre (25 mm is 250, -12.5  *)
(*    mm is -125); opacities are percentages.                              *)
(*  - Parameter rotations are degrees; mesh rotations are radians held in  *)
(*    units of pi/2, so r * Math.PI / 180 is r divided by 90.              *)
(*  - null is 0 (slots are 1 and 2).                                       *)
(*  - dispose() calls are counted per object, the count saturating at      *)
(*    DisposeCap.  dropped holds the objects whose last reference the      *)
(*    step just taken overwrote, as they were then: nothing can reach      *)
(*    them afterwards, so that is how they stay for the rest of the run.   *)
(***************************************************************************)
EXTENDS Integers, Sequences, FiniteSets, TLC

VARIABLES
  st,                           \* Component state, queued updates applied
  props,                        \* Component state of the last committed render
  pending,                      \* handler runs with setState calls since the last commit
  mounted,                      \* the Scene is mounted
  primitiveGeometry,            \* <<primitive1Geometry, primitive2Geometry>> (useMemo)
  materialInstance,             \* useMemo createMaterial(..., false)
  intersectionMaterialInstance, \* useMemo createMaterial(..., true)
  primitiveRef,                 \* <<primitive1Ref.current, primitive2Ref.current>>
  intersectionRef,              \* intersectionRef.current: <<>> (null) or <<mesh>>
  dropped,                      \* the objects the last step left unreferenced
  controls,                     \* the TransformControls gizmo and the listeners on it
  orbitEnabled,                 \* orbitControlsRef.current.enabled
  events,                       \* user and gizmo events handled so far
  output                        \* <<>> or <<the file last offered for download>>

vars == <<st, props, pending, mounted, primitiveGeometry, materialInstance,
          intersectionMaterialInstance, primitiveRef, intersectionRef, dropped,
          controls, orbitEnabled, events, output>>

\* Every mesh, geometry and material of the Scene
meshVars == <<primitiveGeometry, materialInstance, intersectionMaterialInstance,
              primitiveRef, intersectionRef>>

(***************************************************************************)
(* Bounds and input sets                                                   *)
(***************************************************************************)
\* Handler runs that may queue state before a render commits them
MaxPending == 1
\* Events (clicks, gizmo events, inputs of the panel) in one run; frames,
\* renders and the unmount are not counted
MaxEvents == 4
\* dispose() calls counted per object
DisposeCap == 2
\* Edits of the panel that may queue state before a render commits them,
\* where the specification does not hold them to MaxPending
MaxEdits == 2

null == 0
DegreesPerQuarterTurn == 90
MillimetresPerMetre == 1000
SnapshotSize == 1024

Slots == {1, 2}
Axes == {1, 2, 3}
Other(k) == 3 - k

primitiveTypes == {"box", "cylinder", "sphere", "cone", "pyramid", "torus",
                   "dodecahedron", "octahedron"}
materialOptions == {"clay", "gold", "silver", "clearcoat", "subsurface"}

TypeInputs == {"cylinder"}
MaterialInputs == {"gold"}
OpacityInputs == {30}
MaterialOpacityInputs == {0, 30, 100}
\* 60 mm typed into a size field: min and max of the input do not stop it
SizeInputs == {600}
RotationInputs == {90}
PositionInputs == {0}
GizmoPositions == {50}
\* The axis of a numeric edit or of a gizmo move (newSize[axis], x first)
AxisInputs == {1}
\* The call of calculateIntersection that throws, in a frame that fails
FailureInputs == {"fromMesh", "intersect", "toMesh"}

(***************************************************************************)
(* Values                                                                  *)
(***************************************************************************)
Vec(x, y, z) == <<x, y, z>>
SetAxis(v, axis, value) == [v EXCEPT ![axis] = value]

Bump(n) == IF n < DisposeCap THEN n + 1 ELSE n

\* r * Math.PI / 180, componentwise
DegToRad(v) == <<v[1] \div DegreesPerQuarterTurn, v[2] \div DegreesPerQuarterTurn,
                 v[3] \div DegreesPerQuarterTurn>>
\* r * 180 / Math.PI, componentwise
RadToDeg(v) == <<v[1] * DegreesPerQuarterTurn, v[2] * DegreesPerQuarterTurn,
                 v[3] * DegreesPerQuarterTurn>>

createPrimitive(type) == [kind |-> type, disposed |-> 0]

\* A variant of createMaterial whose default is the gold surface
createMaterialDefaultGold(material, isDarkMode, params, isIntersection) ==
  LET base == [transparent |-> ~isIntersection,
               opacity |-> IF isIntersection THEN 100 ELSE params.opacity,
               disposed |-> 0,
               texture |-> FALSE,
               loading |-> material \in {"clearcoat", "subsurface"}]
  IN CASE material = "silver" ->
            base @@ [kind |-> "silver", color |-> "#C0C0C0"]
       [] material = "clearcoat" ->
            base @@ [kind |-> "clearcoat", color |-> params.albedo]
       [] material = "subsurface" ->
            base @@ [kind |-> "subsurface", color |-> params.albedo]
       [] OTHER ->
            base @@ [kind |-> "gold", color |-> "#FFD700"]

\* A variant of createMaterial that ignores isIntersection
createMaterialTransparent(material, isDarkMode, params, isIntersection) ==
  LET base == [transparent |-> TRUE, opacity |-> params.opacity, disposed |-> 0,
               texture |-> FALSE,
               loading |-> material \in {"clearcoat", "subsurface"}]
  IN CASE material = "gold" ->
            base @@ [kind |-> "gold", color |-> "#FFD700"]
       [] material = "silver" ->
            base @@ [kind |-> "silver", color |-> "#C0C0C0"]
       [] material = "clearcoat" ->
            base @@ [kind |-> "clearcoat", color |-> params.albedo]
       [] material = "subsurface" ->
            base @@ [kind |-> "subsurface", color |-> params.albedo]
       [] OTHER ->
            base @@ [kind |-> "clay",
                     color |-> IF isDarkMode THEN "#888888" ELSE "#CCCCCC"]

\* lines 89-149; opacity in hundredths.  texture: the maps of the kind are
\* set; loading: a TextureLoader.load of this material has not called back
createMaterial(material, isDarkMode, params, isIntersection) ==
  LET base == [transparent |-> ~isIntersection,
               opacity |-> IF isIntersection THEN 100 ELSE params.opacity,
               disposed |-> 0,
               texture |-> FALSE,
               loading |-> material \in {"clearcoat", "subsurface"}]
  IN CASE material = "gold" ->
            base @@ [kind |-> "gold", color |-> "#FFD700"]
       [] material = "silver" ->
            base @@ [kind |-> "silver", color |-> "#C0C0C0"]
       [] material = "clearcoat" ->
            base @@ [kind |-> "clearcoat", color |-> params.albedo]
       [] material = "subsurface" ->
            base @@ [kind |-> "subsurface", color |-> params.albedo]
       [] OTHER ->
            base @@ [kind |-> "clay",
                     color |-> IF isDarkMode THEN "#888888" ELSE "#CCCCCC"]

\* Material.clone(): a new object with the same surface and the same maps,
\* never disposed; the callback of a texture load still under way holds the
\* material it was started for, not the clone
cloneMaterial(m) == [m EXCEPT !.disposed = 0, !.loading = FALSE]

\* new THREE.Mesh(geometry, material): identity transform (scale 1 is 10
\* tenths) and identity matrix, the matrix held as the scale, rotation and
\* position it was last composed from; visible
newMesh(material) ==
  [scale |-> Vec(10, 10, 10), rotation |-> Vec(0, 0, 0), position |-> Vec(0, 0, 0),
   matrix |-> [scale |-> Vec(10, 10, 10), rotation |-> Vec(0, 0, 0),
               position |-> Vec(0, 0, 0)],
   visible |-> TRUE, inScene |-> FALSE, material |-> material]

\* An object nothing references any more: what it was, the dispose() calls
\* its geometry and its material got (-1: it has none of its own) and
\* whether it is still in the scene graph
Retire(what, geo, mat, inScene) ==
  [what |-> what, geo |-> geo, mat |-> mat, inScene |-> inScene]

\* The objects of the scene as one value at the start of a step: the
\* memoized geometries, the two source meshes, the result mesh, and the
\* objects the step has dropped so far
Heap == [geom |-> primitiveGeometry, prim |-> primitiveRef,
         inter |-> intersectionRef, retired |-> {}]

Store(H) ==
  /\ primitiveGeometry' = H.geom
  /\ primitiveRef' = H.prim
  /\ intersectionRef' = H.inter
  /\ dropped' = H.retired

(***************************************************************************)
(* Initial state: the Component's useState defaults, the Scene mounted and *)
(* its mount effects run (both source meshes built and added), no frame    *)
(* yet.                                                                    *)
(***************************************************************************)
InitialState ==
  [primitiveType |-> <<"box", "cylinder">>,
   size |-> <<Vec(250, 250, 250), Vec(250, 250, 250)>>,
   rotation |-> <<Vec(0, 0, 0), Vec(0, 0, 0)>>,
   position |-> <<Vec(-125, 0, 0), Vec(-250, 0, 0)>>,
   showIntersection |-> FALSE,
   selectedObject |-> null,
   material |-> "clay",
   isDarkMode |-> FALSE,
   isFullscreen |-> FALSE,
   materialParams |-> [opacity |-> 70, albedo |-> "#FFFFFF"],
   paramsReplaced |-> FALSE]

NoControls ==
  [mounted |-> FALSE, object |-> "none", visible |-> FALSE, dragging |-> FALSE,
   listening |-> FALSE,
   loose |-> [position |-> Vec(0, 0, 0), rotation |-> Vec(0, 0, 0)]]

Init ==
  /\ st = InitialState
  /\ props = InitialState
  /\ pending = 0
  /\ mounted = TRUE
  /\ primitiveGeometry = [k \in Slots |-> createPrimitive(InitialState.primitiveType[k])]
  /\ materialInstance =
       createMaterial(InitialState.material, InitialState.isDarkMode,
                      InitialState.materialParams, FALSE)
  /\ intersectionMaterialInstance =
       createMaterial(InitialState.material, InitialState.isDarkMode,
                      InitialState.materialParams, TRUE)
  /\ primitiveRef =
       [k \in Slots |->
          [newMesh(cloneMaterial(createMaterial(InitialState.material,
                                                InitialState.isDarkMode,
                                                InitialState.materialParams, FALSE)))
             EXCEPT !.inScene = TRUE]]
  /\ intersectionRef = <<>>
  /\ dropped = {}
  /\ controls = NoControls
  /\ orbitEnabled = TRUE
  /\ events = 0
  /\ output = <<>>

(***************************************************************************)
(* The frame: updatePrimitive on both source meshes, calculateIntersection *)
(***************************************************************************)
\* A variant of updatePrimitive that leaves the position of the mesh alone
updatePrimitiveKeepPosition(mesh, size, rotation, position) ==
  [mesh EXCEPT !.scale = size, !.rotation = DegToRad(rotation)]

\* A variant of updatePrimitive that moves the mesh by the position instead
\* of moving it to the position
updatePrimitiveTranslate(mesh, size, rotation, position) ==
  [mesh EXCEPT !.scale = size, !.rotation = DegToRad(rotation),
               !.position = <<@[1] + position[1], @[2] + position[2],
                              @[3] + position[3]>>]

\* mesh.geometry = geometry is the memoized geometry of the slot, which the
\* mesh already holds; scale, rotation and position are set absolutely
updatePrimitive(mesh, size, rotation, position) ==
  [mesh EXCEPT !.scale = size, !.rotation = DegToRad(rotation),
               !.position = position]

\* A variant of updateMatrix that leaves the matrix as it is
updateMatrixStale(mesh) == mesh

\* Object3D.updateMatrix(): the matrix is composed from position, rotation
\* and scale
updateMatrix(mesh) ==
  [mesh EXCEPT !.matrix = [scale |-> mesh.scale, rotation |-> mesh.rotation,
                           position |-> mesh.position]]

\* CSG.fromMesh(mesh): the solid of a geometry kind placed by mesh.matrix
fromMesh(geometry, mesh) ==
  [kind |-> geometry.kind, scale |-> mesh.matrix.scale,
   rotation |-> mesh.matrix.rotation, position |-> mesh.matrix.position]

Abs(n) == IF n < 0 THEN -n ELSE n

\* The extents of a solid along x, y and z.  Every unit shape is taken to
\* fill the unit cube; the Euler rotation (order XYZ: about z, then y, then
\* x) is a number of quarter turns per axis, an odd number swaps the two
\* other extents
Extent(bsp) ==
  LET e0 == bsp.scale
      e1 == IF bsp.rotation[3] % 2 = 1 THEN <<e0[2], e0[1], e0[3]>> ELSE e0
      e2 == IF bsp.rotation[2] % 2 = 1 THEN <<e1[3], e1[2], e1[1]>> ELSE e1
  IN IF bsp.rotation[1] % 2 = 1 THEN <<e2[1], e2[3], e2[2]>> ELSE e2

\* The two solids share interior points: their extents overlap on every axis
Overlap(bspA, bspB) ==
  \A axis \in Axes :
    2 * Abs(bspA.position[axis] - bspB.position[axis])
      < Extent(bspA)[axis] + Extent(bspB)[axis]

\* A variant of intersect that keeps the polygons of the first operand only
intersectFirst(bspA, bspB) ==
  IF Overlap(bspA, bspB) THEN <<[of |-> bspA, within |-> bspB]>> ELSE <<>>

\* bspA.intersect(bspB): the polygons of A inside B followed by the polygons
\* of B inside A; no polygon at all when the solids do not overlap
intersect(bspA, bspB) ==
  IF Overlap(bspA, bspB)
  THEN <<[of |-> bspA, within |-> bspB], [of |-> bspB, within |-> bspA]>>
  ELSE <<>>

\* CSG.toMesh(bsp, new THREE.Matrix4(), material): a new mesh with a new
\* geometry of its own
toMesh(bsp, material) ==
  [solid |-> bsp, geometry |-> [disposed |-> 0], material |-> material,
   visible |-> TRUE, inScene |-> FALSE]

\* Variants of disposeResult with one call left out or repeated
disposeResultLeak(ref) ==
  IF ref = <<>> THEN ref
  ELSE <<[ref[1] EXCEPT !.inScene = FALSE, !.geometry.disposed = Bump(@)]>>

disposeResultStay(ref) ==
  IF ref = <<>> THEN ref
  ELSE <<[ref[1] EXCEPT !.geometry.disposed = Bump(@),
                        !.material.disposed = Bump(@)]>>

disposeResultTwice(ref) ==
  IF ref = <<>> THEN ref
  ELSE <<[ref[1] EXCEPT !.inScene = FALSE,
                        !.geometry.disposed = Bump(Bump(@)),
                        !.material.disposed = Bump(@)]>>

\* lines 210-216: scene.remove, geometry.dispose(), material.dispose() on
\* the mesh intersectionRef points at
disposeResult(ref) ==
  IF ref = <<>> THEN ref
  ELSE <<[ref[1] EXCEPT !.inScene = FALSE,
                        !.geometry.disposed = Bump(@),
                        !.material.disposed = Bump(@)]>>

\* A variant of installResult that keeps the old result when the new one
\* has no polygon
installResultNonEmpty(H, mesh) ==
  IF mesh.solid = <<>> THEN H
  ELSE [H EXCEPT !.inter = <<[mesh EXCEPT !.inScene = TRUE]>>,
                 !.retired = IF H.inter = <<>> THEN @
                             ELSE @ \cup {Retire("result", H.inter[1].geometry.disposed,
                                                 H.inter[1].material.disposed,
                                                 H.inter[1].inScene)}]

\* lines 218-222: intersectionRef.current is overwritten with the new mesh,
\* which is added to the scene; the mesh it pointed at is referenced no more
installResult(H, mesh) ==
  [H EXCEPT !.inter = <<[mesh EXCEPT !.inScene = TRUE]>>,
            !.retired = IF H.inter = <<>> THEN @
                        ELSE @ \cup {Retire("result", H.inter[1].geometry.disposed,
                                            H.inter[1].material.disposed,
                                            H.inter[1].inScene)}]

\* A visibility that follows the toggle alone
setVisibilityToggle(prim, showIntersection, selectedObject) ==
  [k \in Slots |-> [prim[k] EXCEPT !.visible = showIntersection]]

\* lines 224-229
setVisibility(prim, showIntersection, selectedObject) ==
  [k \in Slots |-> [prim[k] EXCEPT !.visible = showIntersection \/ selectedObject = k]]

\* lines 232-233: Mesh.clone() shares the geometry of the mesh it copies, so
\* clone.geometry.dispose() is a dispose() of the slot's memoized geometry
disposeClones(geom) ==
  [k \in Slots |-> [geom[k] EXCEPT !.disposed = Bump(@)]]

\* calculateIntersection as closed over showIntersection, selectedObject and
\* intersectionMaterialInstance; fail names the call that throws, if any
calculateIntersection(H, showIntersection, selectedObject, interMaterial, fail) ==
  IF fail \in {"fromMesh", "intersect"} THEN H
  ELSE
    LET primitive1Clone == updateMatrix(H.prim[1])
        primitive2Clone == updateMatrix(H.prim[2])
        bspA == fromMesh(H.geom[1], primitive1Clone)
        bspB == fromMesh(H.geom[2], primitive2Clone)
        intersectionBSP == intersect(bspA, bspB)
        H1 == [H EXCEPT !.inter = disposeResult(@)]
    IN IF fail = "toMesh" THEN H1
       ELSE
         LET H2 == installResult(H1, toMesh(intersectionBSP, cloneMaterial(interMaterial)))
         IN [H2 EXCEPT !.prim = setVisibility(@, showIntersection, selectedObject),
                       !.geom = disposeClones(@)]

\* The render that follows the frame callbacks: scene.updateMatrixWorld()
\* composes the matrix of every mesh in the scene (matrixAutoUpdate)
renderScene(H) ==
  [H EXCEPT !.prim = [k \in Slots |-> IF @[k].inScene THEN updateMatrix(@[k])
                                                      ELSE @[k]]]

\* useFrame callback, closed over the props of the last committed render;
\* a callback that throws ends the frame before the render
useFrame(fail) ==
  /\ mounted
  /\ LET H0 == [Heap EXCEPT !.prim =
                   [k \in Slots |->
                      updatePrimitive(@[k], props.size[k], props.rotation[k],
                                      props.position[k])]]
         H1 == calculateIntersection(H0, props.showIntersection, props.selectedObject,
                                     intersectionMaterialInstance, fail)
     IN Store(IF fail = "none" THEN renderScene(H1) ELSE H1)
  /\ UNCHANGED <<st, props, pending, mounted, materialInstance,
                 intersectionMaterialInstance, controls, orbitEnabled, events, output>>

(***************************************************************************)
(* The transform gizmo.  controls.object is "none", "group" (the empty     *)
(* group the TransformControls component attaches itself to when it is     *)
(* mounted without an object), "prim1"/"prim2" (the mesh a slot's ref      *)
(* points at) or "old1"/"old2" (a mesh the refs no longer point at).       *)
(* controls.loose is the position and rotation of the attached object      *)
(* when it is not one of the two current meshes.                           *)
(***************************************************************************)
MeshObject(k) == IF k = 1 THEN "prim1" ELSE "prim2"
OldObject(k) == IF k = 1 THEN "old1" ELSE "old2"

ObjectTransform(c, prim) ==
  CASE c.object = "prim1" -> [position |-> prim[1].position, rotation |-> prim[1].rotation]
    [] c.object = "prim2" -> [position |-> prim[2].position, rotation |-> prim[2].rotation]
    [] OTHER -> c.loose

\* The state of one handler run: the queued Component state, the objects of
\* the scene, the gizmo, and whether a setter was called
World == [st |-> st, heap |-> Heap, controls |-> controls, queued |-> FALSE]

Commit(W) ==
  /\ st' = W.st
  /\ Store(W.heap)
  /\ controls' = W.controls
  /\ pending' = IF W.queued THEN pending + 1 ELSE pending

\* handleChange (lines 321-342), registered by the effect of the last commit
\* that ran it: selectedObject and calculateIntersection are that render's
handleChange(W) ==
  IF W.controls.object = "none" THEN W
  ELSE
    LET t == ObjectTransform(W.controls, W.heap.prim)
        s == props.selectedObject
    IN [W EXCEPT
          !.st = IF s \in Slots
                 THEN [@ EXCEPT !.position[s] = t.position,
                                !.rotation[s] = RadToDeg(t.rotation)]
                 ELSE @,
          !.queued = @ \/ s \in Slots,
          !.heap = calculateIntersection(@, props.showIntersection,
                                         props.selectedObject,
                                         intersectionMaterialInstance, "none")]

\* The gizmo dispatches 'change' to the listeners registered on it
dispatchChange(W) == IF W.controls.listening THEN handleChange(W) ELSE W

\* TransformControls.attach(object): this.object = object (a 'change' event
\* when the object differs), this.visible = true
attach(W, object) ==
  LET W1 == [W EXCEPT !.controls.object = object]
      W2 == IF W.controls.object # object THEN dispatchChange(W1) ELSE W1
  IN [W2 EXCEPT !.controls.visible = TRUE]

\* TransformControls.detach(): this.object = undefined, this.visible = false
detach(W) ==
  LET W1 == [W EXCEPT !.controls.object = "none"]
      W2 == IF W.controls.object # "none" THEN dispatchChange(W1) ELSE W1
  IN [W2 EXCEPT !.controls.visible = FALSE]

\* A variant of setSelectedObject that selects the other slot
setSelectedObjectOther(W, value) ==
  [W EXCEPT !.st.selectedObject = IF value \in Slots THEN Other(value) ELSE value,
            !.queued = TRUE]

\* setSelectedObject(value) called in a handler run
setSelectedObject(W, value) ==
  [W EXCEPT !.st.selectedObject = value, !.queued = TRUE]

\* onMouseClick (lines 266-298); hit is the slot of intersects[0].object, or
\* null when the ray hits neither source mesh
onMouseClick(hit) ==
  /\ mounted
  /\ events < MaxEvents
  /\ events' = events + 1
  /\ UNCHANGED output
  /\ pending < MaxPending
  /\ IF props.isFullscreen
     THEN /\ dropped' = {}
          /\ UNCHANGED <<st, pending, primitiveGeometry, primitiveRef,
                         intersectionRef, controls>>
     ELSE
       LET W0 == setSelectedObject(World, hit)
       IN IF hit \in Slots
          THEN LET W1 == IF controls.mounted THEN attach(W0, MeshObject(hit)) ELSE W0
               IN Commit([W1 EXCEPT !.controls.visible = @ \/ controls.mounted])
          ELSE Commit(IF controls.mounted THEN detach(W0) ELSE W0)
  /\ UNCHANGED <<props, mounted, materialInstance, intersectionMaterialInstance,
                 orbitEnabled>>

\* handleMouseDown (lines 311-315): the gizmo starts a drag of its object
handleMouseDown ==
  /\ mounted
  /\ events < MaxEvents
  /\ events' = events + 1
  /\ UNCHANGED output
  /\ controls.mounted /\ controls.object # "none" /\ ~controls.dragging
  /\ controls' = [controls EXCEPT !.dragging = TRUE]
  /\ orbitEnabled' = IF controls.listening THEN FALSE ELSE orbitEnabled
  /\ dropped' = {}
  /\ UNCHANGED <<st, props, pending, mounted, meshVars>>

\* handleMouseUp (lines 316-320): the drag ends
handleMouseUp ==
  /\ mounted
  /\ events < MaxEvents
  /\ events' = events + 1
  /\ UNCHANGED output
  /\ controls.mounted /\ controls.dragging
  /\ controls' = [controls EXCEPT !.dragging = FALSE]
  /\ orbitEnabled' = IF controls.listening THEN TRUE ELSE orbitEnabled
  /\ dropped' = {}
  /\ UNCHANGED <<st, props, pending, mounted, meshVars>>

\* A 'change' event of the gizmo that moves nothing (pointer hover changes
\* the highlighted axis)
gizmoChange ==
  /\ mounted
  /\ events < MaxEvents
  /\ events' = events + 1
  /\ UNCHANGED output
  /\ controls.mounted /\ controls.listening
  /\ pending < MaxPending
  /\ Commit(handleChange(World))
  /\ UNCHANGED <<props, mounted, materialInstance, intersectionMaterialInstance,
                 orbitEnabled>>

\* The gizmo is in translate mode (no mode is ever set): a pointer move of
\* a drag sets one component of the attached object's position, then
\* dispatches 'change'
gizmoMove(axis, value) ==
  /\ mounted
  /\ events < MaxEvents
  /\ events' = events + 1
  /\ UNCHANGED output
  /\ controls.mounted /\ controls.dragging /\ controls.object # "none"
  /\ pending < MaxPending
  /\ LET o == controls.object
         W1 == CASE o = "prim1" -> [World EXCEPT !.heap.prim[1].position[axis] = value]
                 [] o = "prim2" -> [World EXCEPT !.heap.prim[2].position[axis] = value]
                 [] OTHER -> [World EXCEPT !.controls.loose.position[axis] = value]
     IN Commit(dispatchChange(W1))
  /\ UNCHANGED <<props, mounted, materialInstance, intersectionMaterialInstance,
                 orbitEnabled>>

(***************************************************************************)
(* A commit: the queued state is rendered (useMemo), the gizmo is mounted  *)
(* or unmounted, and the effects whose dependencies changed are cleaned up *)
(* and run again.                                                          *)
(***************************************************************************)
\* A clean-up that disposes the meshes and leaves them in the scene
meshCleanupKeepInScene(H) ==
  [H EXCEPT
     !.prim = [k \in Slots |-> [@[k] EXCEPT !.material.disposed = Bump(@)]],
     !.geom = [k \in Slots |-> [@[k] EXCEPT !.disposed = Bump(@)]]]

\* lines 247-253, on the meshes the refs point at: scene.remove, then
\* geometry.dispose() and material.dispose() of each
meshCleanup(H) ==
  [H EXCEPT
     !.prim = [k \in Slots |-> [@[k] EXCEPT !.inScene = FALSE,
                                            !.material.disposed = Bump(@)]],
     !.geom = [k \in Slots |-> [@[k] EXCEPT !.disposed = Bump(@)]]]

\* lines 182-183: a slot whose shape kind changed gets a new geometry; the
\* memo drops the old one
memoGeometry(H, types, changed) ==
  [H EXCEPT
     !.geom = [k \in Slots |-> IF changed[k] THEN createPrimitive(types[k]) ELSE @[k]],
     !.retired = @ \cup {Retire("geometry", H.geom[k].disposed, -1, FALSE) :
                           k \in {j \in Slots : changed[j]}}]

\* lines 237-245: both refs are overwritten with new meshes, which are added
\* to the scene
meshSetup(H, material, isDarkMode) ==
  [H EXCEPT
     !.prim = [k \in Slots |->
                 [newMesh([cloneMaterial(material) EXCEPT
                             !.color = IF k = 1
                                       THEN (IF isDarkMode THEN "#cc0000" ELSE "#ff0000")
                                       ELSE (IF isDarkMode THEN "#00cc00" ELSE "#00ff00")])
                    EXCEPT !.inScene = TRUE]],
     !.retired = @ \cup {Retire("source", -1, H.prim[k].material.disposed,
                                H.prim[k].inScene) : k \in Slots}]

\* The gizmo after a commit that keeps it mounted: an attached source mesh
\* that the refs no longer point at stays attached
keepControls(c, prim, meshEffect, handlerDeps, visibleDeps) ==
  LET stale == meshEffect /\ c.object \in {"prim1", "prim2"}
  IN [c EXCEPT
        !.object = IF stale THEN (IF @ = "prim1" THEN "old1" ELSE "old2") ELSE @,
        !.loose = IF stale THEN ObjectTransform(c, prim) ELSE @,
        !.listening = @ \/ handlerDeps,
        !.visible = @ \/ visibleDeps]

\* line 365 mounted: a new TransformControls, attached to its own group;
\* the effect of lines 308-353 registers the handlers if it runs
mountControls(handlerDeps) ==
  [NoControls EXCEPT !.mounted = TRUE, !.object = "group", !.visible = TRUE,
                     !.listening = handlerDeps]

\* A gizmo rendered whenever a slot is selected, fullscreen or not
showTransformControlsSelected(selectedObject, isFullscreen) ==
  selectedObject # null

\* line 364: the condition under which the TransformControls element is
\* rendered
showTransformControls(selectedObject, isFullscreen) ==
  selectedObject # null /\ ~isFullscreen

Render ==
  /\ mounted
  /\ pending > 0
  /\ LET n == [st EXCEPT !.paramsReplaced = FALSE]
         geometryChanged == [k \in Slots |-> n.primitiveType[k] # props.primitiveType[k]]
         materialChanged == \/ n.material # props.material
                            \/ n.isDarkMode # props.isDarkMode
                            \/ st.paramsReplaced
         meshEffect == geometryChanged[1] \/ geometryChanged[2] \/ materialChanged
         handlerDeps == \/ n.selectedObject # props.selectedObject
                        \/ n.showIntersection # props.showIntersection
                        \/ materialChanged
         visibleDeps == \/ n.selectedObject # props.selectedObject
                        \/ n.isFullscreen # props.isFullscreen
         show == showTransformControls(n.selectedObject, n.isFullscreen)
         material == IF materialChanged
                     THEN createMaterial(n.material, n.isDarkMode, n.materialParams, FALSE)
                     ELSE materialInstance
         interMaterial == IF materialChanged
                          THEN createMaterial(n.material, n.isDarkMode, n.materialParams, TRUE)
                          ELSE intersectionMaterialInstance
         H1 == IF meshEffect
               THEN meshSetup(memoGeometry(meshCleanup(Heap), n.primitiveType,
                                           geometryChanged),
                              material, n.isDarkMode)
               ELSE Heap
         H2 == IF materialChanged
               THEN [H1 EXCEPT !.retired = @ \cup
                       {Retire("material", -1, materialInstance.disposed, FALSE),
                        Retire("intersectionMaterial", -1,
                               intersectionMaterialInstance.disposed, FALSE)}]
               ELSE H1
     IN /\ st' = n
        /\ props' = n
        /\ materialInstance' = material
        /\ intersectionMaterialInstance' = interMaterial
        /\ Store(H2)
        /\ controls' = IF ~show THEN NoControls
                       ELSE IF ~controls.mounted THEN mountControls(handlerDeps)
                       ELSE keepControls(controls, primitiveRef, meshEffect,
                                         handlerDeps, visibleDeps)
  /\ pending' = 0
  /\ UNCHANGED <<mounted, orbitEnabled, events, output>>

\* The Scene is unmounted: the clean-ups of its effects run
Unmount ==
  /\ mounted
  /\ mounted' = FALSE
  /\ Store(meshCleanup(Heap))
  /\ controls' = NoControls
  /\ UNCHANGED <<st, props, pending, materialInstance, intersectionMaterialInstance,
                 orbitEnabled, events, output>>

(***************************************************************************)
(* The Component's handlers                                                *)
(***************************************************************************)
\* A handler that only queues Component state
Queue(s) ==
  /\ mounted
  /\ pending < MaxPending
  /\ events < MaxEvents
  /\ st' = s
  /\ pending' = pending + 1
  /\ events' = events + 1
  /\ UNCHANGED output
  /\ dropped' = {}
  /\ UNCHANGED <<props, mounted, meshVars, controls, orbitEnabled>>

\* An edit of the panel: it queues Component state on top of what is queued
QueueEdit(s) ==
  /\ mounted
  /\ pending < MaxEdits
  /\ events < MaxEvents
  /\ st' = s
  /\ pending' = pending + 1
  /\ events' = events + 1
  /\ UNCHANGED output
  /\ dropped' = {}
  /\ UNCHANGED <<props, mounted, meshVars, controls, orbitEnabled>>

\* An edit that copies the rendered vector instead of the queued one
handleSizeChangeOfRendered(index, axis, value) ==
  /\ props.selectedObject # null /\ ~props.isFullscreen
  /\ index = props.selectedObject
  /\ LET k == IF index = 1 THEN 1 ELSE 2
     IN QueueEdit([st EXCEPT !.size[k] = [props.size[k] EXCEPT ![axis] = value]])

\* lines 461-468; the inputs are rendered for the selected slot only
handleSizeChange(index, axis, value) ==
  /\ props.selectedObject # null /\ ~props.isFullscreen
  /\ index = props.selectedObject
  /\ LET k == IF index = 1 THEN 1 ELSE 2
     IN QueueEdit([st EXCEPT !.size[k][axis] = value])

\* lines 470-477
handleRotationChange(index, axis, value) ==
  /\ props.selectedObject # null /\ ~props.isFullscreen
  /\ index = props.selectedObject
  /\ LET k == IF index = 1 THEN 1 ELSE 2
     IN QueueEdit([st EXCEPT !.rotation[k][axis] = value])

\* lines 479-486
handleTransformChange(index, axis, value) ==
  /\ props.selectedObject # null /\ ~props.isFullscreen
  /\ index = props.selectedObject
  /\ LET k == IF index = 1 THEN 1 ELSE 2
     IN QueueEdit([st EXCEPT !.position[k][axis] = value])

\* Outcomes of the Math.random() calls of randomizePrimitives
RandomDraws ==
  {[primitiveType |-> <<"cylinder", "box">>,
    size |-> <<Vec(200, 300, 400), Vec(490, 200, 200)>>,
    rotation |-> <<Vec(90, 0, 270), Vec(0, 180, 0)>>,
    position |-> <<Vec(-100, 0, 50), Vec(90, 0, 0)>>]}

\* lines 449-459
randomizePrimitives(draw) ==
  /\ ~props.isFullscreen
  /\ Queue([st EXCEPT !.primitiveType = draw.primitiveType,
                      !.size = draw.size,
                      !.rotation = draw.rotation,
                      !.position = draw.position,
                      !.selectedObject = null])

\* line 711
setPrimitiveType(k, type) ==
  /\ ~props.isFullscreen
  /\ type # st.primitiveType[k]
  /\ Queue([st EXCEPT !.primitiveType[k] = type])

\* line 678
setMaterial(option) ==
  /\ ~props.isFullscreen
  /\ option # st.material
  /\ Queue([st EXCEPT !.material = option])

\* line 735: setMaterialParams(prev => ({ ...prev, opacity: value })), a new
\* params object
setOpacity(value) ==
  /\ ~props.isFullscreen
  /\ value # st.materialParams.opacity
  /\ Queue([st EXCEPT !.materialParams.opacity = value, !.paramsReplaced = TRUE])

\* line 695
setShowIntersection ==
  /\ ~props.isFullscreen
  /\ Queue([st EXCEPT !.showIntersection = ~props.showIntersection])

\* lines 426-428: the colour-scheme media query changes
setIsDarkMode ==
  /\ Queue([st EXCEPT !.isDarkMode = ~@])

\* A toggle that leaves the selection alone in both directions
toggleFullscreenKeepSelection ==
  /\ Queue([st EXCEPT !.isFullscreen = ~props.isFullscreen])

\* lines 596-601
toggleFullscreen ==
  /\ Queue([st EXCEPT !.isFullscreen = ~props.isFullscreen,
                      !.selectedObject = IF props.isFullscreen THEN null ELSE @])

(***************************************************************************)
(* Export and snapshot.  A length is a fraction n / d; the parameters of   *)
(* the Component state are whole tenths of a millimetre.  The rounding of  *)
(* a floating-point division or multiplication is left out.                *)
(***************************************************************************)
Millimetres(tenths) == [n |-> tenths, d |-> 10]
Div(q, k) == [n |-> q.n, d |-> q.d * k]
Mul(q, k) == [n |-> q.n * k, d |-> q.d]
Same(p, q) == p.n * q.d = q.n * p.d
Lengths(v) == [axis \in Axes |-> Millimetres(v[axis])]

\* A variant of convertToMeters for centimetres
convertToCentimeters(size) ==
  [axis \in Axes |-> Div(Millimetres(size[axis]), 10)]

\* lines 494-496
convertToMeters(size) ==
  [axis \in Axes |-> Div(Millimetres(size[axis]), MillimetresPerMetre)]

\* A variant of positionInMeters that leaves the position in millimetres
positionInMillimeters(position) == Lengths(position)

\* lines 502-503: position.map(value => value / 1000)
positionInMeters(position) ==
  [axis \in Axes |-> Div(Millimetres(position[axis]), MillimetresPerMetre)]

\* lines 490-511: a mesh of the export scene
exportPrimitive(s, k) ==
  [kind |-> createPrimitive(s.primitiveType[k]).kind,
   material |-> createMaterial(s.material, s.isDarkMode, s.materialParams, FALSE),
   scale |-> convertToMeters(s.size[k]),
   rotation |-> DegToRad(s.rotation[k]),
   position |-> positionInMeters(s.position[k])]

\* lines 488-537, closed over the props of the last committed render: the
\* document GLTFExporter.parse hands to the callback, with the units put in
\* gltf.asset.extras, offered as <type1>_<type2>_mm.gltf
downloadScene ==
  /\ mounted /\ ~props.isFullscreen
  /\ events < MaxEvents
  /\ output' = <<[file |-> "gltf",
                  download |-> <<props.primitiveType[1], props.primitiveType[2], "mm">>,
                  units |-> "millimeters",
                  nodes |-> <<exportPrimitive(props, 1), exportPrimitive(props, 2)>>]>>
  /\ events' = events + 1
  /\ dropped' = {}
  /\ UNCHANGED <<st, props, pending, mounted, meshVars, controls, orbitEnabled>>

\* lines 548-559: a source mesh of the snapshot scene
snapshotPrimitive(s, k) ==
  LET mesh == newMesh(createMaterial(s.material, s.isDarkMode, s.materialParams, FALSE))
      placed == updatePrimitive(mesh, s.size[k], s.rotation[k], s.position[k])
  IN [kind |-> createPrimitive(s.primitiveType[k]).kind,
      material |-> placed.material,
      scale |-> Lengths(placed.scale),
      rotation |-> placed.rotation,
      position |-> Lengths(placed.position),
      visible |-> TRUE]

\* lines 564-567: CSG.fromMesh reads primitive.matrix, which scale.set,
\* rotation.set and position.set leave alone and nothing has updated since
\* new THREE.Mesh: it is the matrix of a new mesh
snapshotIntersection(s) ==
  LET material == createMaterial(s.material, s.isDarkMode, s.materialParams, FALSE)
      primitive(k) == updatePrimitive(newMesh(material), s.size[k], s.rotation[k],
                                      s.position[k])
      bspA == fromMesh(createPrimitive(s.primitiveType[1]), primitive(1))
      bspB == fromMesh(createPrimitive(s.primitiveType[2]), primitive(2))
      intersectionBSP == intersect(bspA, bspB)
  IN toMesh(intersectionBSP,
            createMaterial(s.material, s.isDarkMode, s.materialParams, TRUE))

\* lines 539-594, closed over the props of the last committed render.
\* canvasRef.current is the canvas of the mounted Canvas and null without
\* it; the picture is offered as <type1>_<type2>.png
captureSnapshot ==
  /\ ~props.isFullscreen
  /\ events < MaxEvents
  /\ IF mounted
     THEN output' = <<[file |-> "png",
                       download |-> <<props.primitiveType[1], props.primitiveType[2]>>,
                       width |-> SnapshotSize, height |-> SnapshotSize,
                       nodes |-> <<snapshotPrimitive(props, 1),
                                   snapshotPrimitive(props, 2)>>,
                       intersection |-> snapshotIntersection(props)]>>
     ELSE UNCHANGED output
  /\ events' = events + 1
  /\ dropped' = {}
  /\ UNCHANGED <<st, props, pending, mounted, meshVars, controls, orbitEnabled>>

\* Every call into three and three-csg-ts returns
Next ==
  \/ useFrame("none")
  \/ Render
  \/ Unmount
  \/ \E hit \in {null} \cup Slots : onMouseClick(hit)
  \/ handleMouseDown
  \/ handleMouseUp
  \/ gizmoChange
  \/ \E axis \in AxisInputs, value \in GizmoPositions : gizmoMove(axis, value)
  \/ \E index \in Slots, axis \in AxisInputs, value \in SizeInputs :
       pending < MaxPending /\ handleSizeChange(index, axis, value)
  \/ \E index \in Slots, axis \in AxisInputs, value \in RotationInputs :
       pending < MaxPending /\ handleRotationChange(index, axis, value)
  \/ \E index \in Slots, axis \in AxisInputs, value \in PositionInputs :
       pending < MaxPending /\ handleTransformChange(index, axis, value)
  \/ \E draw \in RandomDraws : randomizePrimitives(draw)
  \/ \E k \in Slots, type \in TypeInputs : setPrimitiveType(k, type)
  \/ \E option \in MaterialInputs : setMaterial(option)
  \/ \E value \in OpacityInputs : setOpacity(value)
  \/ setShowIntersection
  \/ setIsDarkMode
  \/ toggleFullscreen

\* Next with frames in which a call of three-csg-ts or three throws: the
\* frame callback ends there, and the frame loop goes on
NextFail ==
  \/ Next
  \/ \E fail \in FailureInputs : useFrame(fail)

\* The Component with its download and snapshot buttons: parameters are
\* typed, drawn at random and rendered, frames run, and the files are taken
ExportSizeInputs == {10, 500}
ExportPositionInputs == {-500, 500}

NextExport ==
  \/ useFrame("none")
  \/ Render
  \/ Unmount
  \/ \E hit \in {1} : onMouseClick(hit)
  \/ \E index \in Slots, axis \in AxisInputs, value \in ExportSizeInputs :
       pending < MaxPending /\ handleSizeChange(index, axis, value)
  \/ \E index \in Slots, axis \in AxisInputs, value \in RotationInputs :
       pending < MaxPending /\ handleRotationChange(index, axis, value)
  \/ \E index \in Slots, axis \in AxisInputs, value \in ExportPositionInputs :
       pending < MaxPending /\ handleTransformChange(index, axis, value)
  \/ \E draw \in RandomDraws : randomizePrimitives(draw)
  \/ setShowIntersection
  \/ downloadScene
  \/ captureSnapshot

\* lines 119-123 and 134-139: the callback of loader.load sets the maps of
\* the material createMaterial returned, the source material (isIntersection
\* FALSE) or the result material of the last render
textureLoaded(isIntersection) ==
  /\ IF isIntersection
     THEN /\ intersectionMaterialInstance.loading
          /\ intersectionMaterialInstance' =
               [intersectionMaterialInstance EXCEPT !.texture = TRUE, !.loading = FALSE]
          /\ UNCHANGED materialInstance
     ELSE /\ materialInstance.loading
          /\ materialInstance' =
               [materialInstance EXCEPT !.texture = TRUE, !.loading = FALSE]
          /\ UNCHANGED intersectionMaterialInstance
  /\ dropped' = {}
  /\ UNCHANGED <<st, props, pending, mounted, primitiveGeometry, primitiveRef,
                 intersectionRef, controls, orbitEnabled, events, output>>

\* The Component with its material panel: a kind is picked, the opacity
\* slider moved, the colour scheme changes, renders commit and frames run
NextMaterial ==
  \/ useFrame("none")
  \/ Render
  \/ Unmount
  \/ \E option \in materialOptions : setMaterial(option)
  \/ \E value \in MaterialOpacityInputs : setOpacity(value)
  \/ setIsDarkMode
  \/ \E isIntersection \in BOOLEAN : textureLoaded(isIntersection)

Spec == Init /\ [][Next]_vars
SpecMaterial == Init /\ [][NextMaterial]_vars
\* The Component with its material selector and the texture loads.  Frames
\* keep running while the Scene is mounted, and a load that was started calls
\* back.
NextTexture ==
  \/ useFrame("none")
  \/ Render
  \/ Unmount
  \/ \E option \in materialOptions : setMaterial(option)
  \/ \E isIntersection \in BOOLEAN : textureLoaded(isIntersection)

SpecTexture ==
  /\ Init /\ [][NextTexture]_vars
  /\ WF_vars(useFrame("none"))
  /\ \A isIntersection \in BOOLEAN : WF_vars(textureLoaded(isIntersection))
SpecExport == Init /\ [][NextExport]_vars
SpecFail == Init /\ [][NextFail]_vars

\* The Component with the inputs of the selected slot, several edits of
\* which may be queued before a render
EditAxes == {1, 2}

NextEdit ==
  \/ useFrame("none")
  \/ Render
  \/ Unmount
  \/ \E hit \in Slots : onMouseClick(hit)
  \/ \E index \in Slots, axis \in EditAxes, value \in SizeInputs :
       handleSizeChange(index, axis, value)
  \/ \E index \in Slots, axis \in EditAxes, value \in RotationInputs :
       handleRotationChange(index, axis, value)
  \/ \E index \in Slots, axis \in EditAxes, value \in ExportPositionInputs :
       handleTransformChange(index, axis, value)

SpecEdit == Init /\ [][NextEdit]_vars

(***************************************************************************)
(* Result meshes.  A result mesh is the one intersectionRef points at or   *)
(* one that a recomputation dropped; a dropped one is never touched again. *)
(***************************************************************************)
DroppedResults == {r \in dropped : r.what = "result"}

CurrentResultLive ==
  /\ intersectionRef # <<>>
  /\ intersectionRef[1].geometry.disposed = 0
  /\ intersectionRef[1].material.disposed = 0

\* Result meshes with a geometry or a material that got no dispose() yet
UndisposedResults ==
  (IF intersectionRef # <<>> /\ (\/ intersectionRef[1].geometry.disposed = 0
                                 \/ intersectionRef[1].material.disposed = 0)
   THEN 1 ELSE 0)
  + Cardinality({r \in DroppedResults : r.geo = 0 \/ r.mat = 0})

\* The steps that run calculateIntersection to its end: a frame, and a
\* 'change' event of the gizmo that reaches handleChange with an object
\* attached (dispatched on its own, by a pointer move of a drag, or by the
\* attach of a click)
Recomputation ==
  \/ useFrame("none")
  \/ gizmoChange /\ controls.object # "none"
  \/ \E axis \in AxisInputs, value \in GizmoPositions :
       gizmoMove(axis, value) /\ controls.listening
  \/ \E hit \in Slots :
       /\ onMouseClick(hit)
       /\ ~props.isFullscreen /\ controls.mounted /\ controls.listening
       /\ controls.object # MeshObject(hit)

\* C1: after every recomputation (by a frame or by a gizmo change event)
\* exactly one result mesh has an un-disposed geometry and material, the one
\* intersectionRef points at, and in no state of a run do two result meshes
\* hold anything un-disposed
C1_OneLiveResult ==
  [][/\ UndisposedResults' <= 1
     /\ Recomputation => (CurrentResultLive' /\ UndisposedResults' = 1)]_vars

\* A recomputation has replaced an earlier result: the new one is live
C1_Witness ==
  /\ CurrentResultLive
  /\ DroppedResults # {}

\* C2: the scene graph holds at most one result mesh in every reachable
\* state: only the mesh intersectionRef points at can be in the scene, every
\* mesh a recomputation dropped was removed from the scene first
C2_OneResultInScene ==
  /\ \A r \in DroppedResults : ~r.inScene
  /\ (IF intersectionRef # <<>> /\ intersectionRef[1].inScene THEN 1 ELSE 0)
       + Cardinality({r \in DroppedResults : r.inScene}) <= 1

\* A gizmo event has queued parameters and replaced the result in the scene
C2_Witness ==
  /\ intersectionRef # <<>> /\ intersectionRef[1].inScene
  /\ DroppedResults # {}
  /\ pending > 0
  /\ st.position # props.position

\* C3: every result mesh superseded by a later recomputation got exactly one
\* geometry.dispose() and exactly one material.dispose()
C3_DisposedOnce ==
  \A r \in DroppedResults : r.geo = 1 /\ r.mat = 1

\* A superseded result mesh, disposed once, after the gizmo has been used
C3_Witness ==
  /\ \E r \in DroppedResults : r.geo = 1 /\ r.mat = 1
  /\ controls.mounted /\ controls.listening
  /\ events > 1

(***************************************************************************)
(* Source meshes, their geometries and materials                           *)
(***************************************************************************)
\* C4: no geometry assigned to a source mesh that is in the scene has been
\* disposed: a source geometry is disposed only once it is superseded
C4_SourceGeometryKept ==
  \A k \in Slots : primitiveRef[k].inScene => primitiveGeometry[k].disposed = 0

\* C5: every object that was replaced has been removed from the scene and
\* disposed, and once the Scene is torn down so has every object it holds:
\* both source meshes with their geometries and materials, the result mesh,
\* and the memoized base and intersection materials
C5_AllReleased ==
  /\ \A r \in dropped : ~r.inScene /\ r.geo # 0 /\ r.mat # 0
  /\ ~mounted =>
       /\ \A k \in Slots : /\ ~primitiveRef[k].inScene
                           /\ primitiveRef[k].material.disposed > 0
                           /\ primitiveGeometry[k].disposed > 0
       /\ intersectionRef # <<>> =>
            /\ ~intersectionRef[1].inScene
            /\ intersectionRef[1].geometry.disposed > 0
            /\ intersectionRef[1].material.disposed > 0
       /\ materialInstance.disposed > 0
       /\ intersectionMaterialInstance.disposed > 0

\* C6: a frame whose recomputation throws, at whichever call, leaves the
\* result mesh of the frame before in the scene and un-disposed
C6_FailureKeepsResult ==
  [][\A fail \in FailureInputs :
       (useFrame(fail) /\ CurrentResultLive /\ intersectionRef[1].inScene)
         => (CurrentResultLive' /\ intersectionRef'[1].inScene)]_vars

\* C7: a canvas click, a drag start, a drag end and a gizmo change event
\* leave every mesh, geometry and material as it was: nothing added, removed,
\* replaced or disposed, no visibility changed
C7_HandlersLeaveMeshes ==
  [][(\/ \E hit \in {null} \cup Slots : onMouseClick(hit)
      \/ handleMouseDown
      \/ handleMouseUp
      \/ gizmoChange) => UNCHANGED meshVars]_vars

(***************************************************************************)
(* Parameters, frames and the gizmo                                        *)
(***************************************************************************)
\* Source mesh k and the result mesh are what a frame makes of the
\* Component state s
SourceMatches(s, k) ==
  /\ primitiveRef[k].scale = s.size[k]
  /\ primitiveRef[k].rotation = DegToRad(s.rotation[k])
  /\ primitiveRef[k].position = s.position[k]
  /\ primitiveGeometry[k].kind = s.primitiveType[k]
  /\ primitiveRef[k].material.kind = s.material
  /\ primitiveRef[k].material.opacity = s.materialParams.opacity

SolidOf(s, k) ==
  [kind |-> s.primitiveType[k], scale |-> s.size[k],
   rotation |-> DegToRad(s.rotation[k]), position |-> s.position[k]]

ResultMatches(s) ==
  /\ intersectionRef # <<>>
  /\ intersectionRef[1].solid = intersect(SolidOf(s, 1), SolidOf(s, 2))
  /\ intersectionRef[1].material.kind = s.material

FrameOutput(s) ==
  /\ \A k \in Slots : SourceMatches(s, k)
  /\ ResultMatches(s)

\* C8, as the code has it: every frame leaves both source meshes with
\* exactly the parameter values of the last committed render and a result
\* solid computed from them, so a change shows in the first frame after the
\* render that commits it; and a pointer move of a drag with the gizmo on
\* the mesh of the rendered selection queues the moved mesh's position as
\* that slot's position parameter, so the frame after the commit restores
\* what a frame run with the parameters of before the move has reset
C8_FrameUsesCommitted ==
  [][/\ useFrame("none") => FrameOutput(props)'
     /\ \A k \in Slots, axis \in AxisInputs, value \in GizmoPositions :
          ( /\ gizmoMove(axis, value)
            /\ controls.object = MeshObject(k) /\ controls.listening
            /\ props.selectedObject = k )
            => /\ primitiveRef'[k].position[axis] = value
               /\ st'.position[k] = primitiveRef'[k].position]_vars

\* A dragged mesh after the commit of the move and a frame: parameters,
\* source meshes and result agree on the position the gizmo set
C8_Witness ==
  /\ pending = 0
  /\ FrameOutput(props)
  /\ controls.dragging
  /\ \E k \in Slots, axis \in Axes :
       /\ controls.object = MeshObject(k)
       /\ primitiveRef[k].position[axis] \in GizmoPositions
       /\ props.position[k] # InitialState.position[k]

\* C8 as stated: the first frame after a parameter change, committed or
\* not, leaves both source meshes with the new parameter values and a
\* result solid computed from them
C8_FrameUsesLatest ==
  [][useFrame("none") => FrameOutput(st)']_vars

\* C9, as the code has it: a canvas click on source primitive k sets the
\* selection to k and a click that hits neither sets it to none, from any
\* selection, unless the last committed render is fullscreen: then the click
\* leaves the selection as it is
C9_ClickSelects ==
  [][\A hit \in {null} \cup Slots :
       onMouseClick(hit) =>
         st'.selectedObject = IF props.isFullscreen THEN st.selectedObject ELSE hit]_vars

\* A click has moved the selection from one slot to the other
C9_Witness ==
  /\ props.selectedObject \in Slots
  /\ st.selectedObject = Other(props.selectedObject)
  /\ ~props.isFullscreen

\* C9 as stated: every canvas click sets the selection to what it hit
C9_ClickAlwaysSelects ==
  [][\A hit \in {null} \cup Slots :
       onMouseClick(hit) => st'.selectedObject = hit]_vars

\* The steps in which the gizmo can dispatch a 'change' event
GizmoEvent ==
  \/ gizmoChange
  \/ \E axis \in AxisInputs, value \in GizmoPositions : gizmoMove(axis, value)
  \/ \E hit \in {null} \cup Slots : onMouseClick(hit)

\* C10: a gizmo change event leaves both sizes alone, and the position and
\* rotation parameters of a slot change only to the position and rotation
\* (in degrees) of that slot's own mesh, with the gizmo attached to it
C10_ChangeWritesOwnSlot ==
  [][GizmoEvent =>
       /\ st'.size = st.size
       /\ \A k \in Slots :
            (st'.position[k] # st.position[k] \/ st'.rotation[k] # st.rotation[k])
              => /\ controls'.object = MeshObject(k)
                 /\ st'.position[k] = primitiveRef'[k].position
                 /\ st'.rotation[k] = RadToDeg(primitiveRef'[k].rotation)]_vars

(***************************************************************************)
(* Parameter ranges                                                        *)
(***************************************************************************)
InRange(v, low, high) == \A axis \in Axes : low <= v[axis] /\ v[axis] <= high

\* C11: every size component of both slots is within 1..50 mm, every
\* rotation component within 0..360 degrees and every position component
\* within -50..50 mm, in the queued and in the rendered Component state
C11_ParametersInRange ==
  \A s \in {st, props}, k \in Slots :
    /\ InRange(s.size[k], 10, 500)
    /\ InRange(s.rotation[k], 0, 360)
    /\ InRange(s.position[k], -500, 500)

(***************************************************************************)
(* Solids                                                                  *)
(***************************************************************************)
\* The source solids of the Component state s do not overlap
Disjoint(s) == ~Overlap(SolidOf(s, 1), SolidOf(s, 2))

\* C12: a frame on source solids that do not overlap installs a result mesh
\* with zero polygons, live and in the scene, having removed and disposed
\* (once) the result before it like any other recomputation, and leaves the
\* Scene mounted for the frames that follow
C12_EmptyResult ==
  [][(useFrame("none") /\ Disjoint(props)) =>
       /\ intersectionRef' # <<>>
       /\ Len(intersectionRef'[1].solid) = 0
       /\ CurrentResultLive' /\ intersectionRef'[1].inScene
       /\ intersectionRef # <<>> =>
            /\ DroppedResults' # {}
            /\ \A r \in DroppedResults' : r.geo = 1 /\ r.mat = 1 /\ ~r.inScene
       /\ mounted']_vars

\* A result with no polygon has replaced an earlier result
C12_Witness ==
  /\ Disjoint(props)
  /\ intersectionRef # <<>> /\ intersectionRef[1].solid = <<>>
  /\ intersectionRef[1].inScene
  /\ DroppedResults # {}

(***************************************************************************)
(* updatePrimitive                                                         *)
(***************************************************************************)
\* C13: whatever transform a source mesh carries, updatePrimitive leaves it
\* with the scale, the rotation (degrees turned into radians) and the
\* position of the parameters, and applying it a second time with the same
\* parameters changes nothing; for both slots, with the queued and with the
\* rendered parameters
C13_UpdateIdempotent ==
  \A k \in Slots, s \in {st, props} :
    LET once == updatePrimitive(primitiveRef[k], s.size[k], s.rotation[k],
                                s.position[k])
    IN /\ once.scale = s.size[k]
       /\ once.rotation = DegToRad(s.rotation[k])
       /\ once.position = s.position[k]
       /\ updatePrimitive(once, s.size[k], s.rotation[k], s.position[k]) = once

\* A mesh that a frame has updated before carries a position and a rotation
\* other than the ones of the parameters it is updated with next
C13_Witness ==
  \E k \in Slots :
    /\ intersectionRef # <<>>
    /\ primitiveRef[k].scale = props.size[k]
    /\ primitiveRef[k].position # st.position[k]
    /\ st.position[k] # Vec(0, 0, 0)
    /\ primitiveRef[k].rotation # DegToRad(st.rotation[k])

(***************************************************************************)
(* createMaterial                                                          *)
(***************************************************************************)
\* A material kind outside the five options
UnknownMaterial == "glass"

\* C14: createMaterial with isIntersection set gives a non-transparent
\* material of opacity 1, and a transparent material with the opacity of the
\* parameters otherwise, for every kind; the result mesh carries a material
\* of the first sort and both source meshes one of the second sort, with the
\* opacity of the rendered parameters
C14_MaterialOpacity ==
  /\ \A material \in materialOptions \cup {UnknownMaterial}, isDarkMode \in BOOLEAN,
        params \in {st.materialParams, props.materialParams} :
       /\ ~createMaterial(material, isDarkMode, params, TRUE).transparent
       /\ createMaterial(material, isDarkMode, params, TRUE).opacity = 100
       /\ createMaterial(material, isDarkMode, params, FALSE).transparent
       /\ createMaterial(material, isDarkMode, params, FALSE).opacity = params.opacity
  /\ intersectionRef # <<>> =>
       /\ ~intersectionRef[1].material.transparent
       /\ intersectionRef[1].material.opacity = 100
  /\ mounted =>
       \A k \in Slots :
         /\ primitiveRef[k].material.transparent
         /\ primitiveRef[k].material.opacity = props.materialParams.opacity

\* The opacity slider was moved away from its default, and a result has
\* replaced another since
C14_Witness ==
  /\ mounted
  /\ props.materialParams.opacity = 30
  /\ primitiveRef[1].material.opacity = 30
  /\ intersectionRef # <<>>
  /\ intersectionRef[1].material.opacity = 100
  /\ DroppedResults # {}

\* The kinds createMaterial has a case for
OwnSurface == {"gold", "silver", "clearcoat", "subsurface"}

\* C15: createMaterial returns a material for every kind: gold, silver,
\* clearcoat and subsurface each get a surface of their own, clay and a kind
\* outside the options get the clay surface; the materials the Scene holds
\* are the ones of the rendered kind
C15_MaterialTotal ==
  /\ \A isDarkMode \in BOOLEAN, isIntersection \in BOOLEAN,
        params \in {st.materialParams, props.materialParams} :
       LET surface(m) == createMaterial(m, isDarkMode, params, isIntersection)
       IN /\ \A m \in OwnSurface : surface(m).kind = m
          /\ \A m, n \in OwnSurface \cup {"clay"} : m # n => surface(m) # surface(n)
          /\ surface("clay").kind = "clay"
          /\ surface("clay").color = IF isDarkMode THEN "#888888" ELSE "#CCCCCC"
          /\ surface(UnknownMaterial) = surface("clay")
  /\ materialInstance.kind = props.material
  /\ intersectionMaterialInstance.kind = props.material

\* The material kind was changed from the default and rendered
C15_Witness ==
  /\ props.material = "gold" /\ materialInstance.color = "#FFD700"
  /\ mounted /\ primitiveRef[1].material.kind = "gold"

(***************************************************************************)
(* Export and snapshot                                                     *)
(***************************************************************************)
\* The length q is tenths / 10 millimetres taken in metres
InMetres(q, tenths) == q.n * 10 * MillimetresPerMetre = tenths * q.d

\* C16: the document downloadScene offers holds exactly two nodes, the source
\* primitives of the rendered kinds, none of them a result solid; every size
\* and position component is the parameter in metres (a thousandth of the
\* millimetre value), the rotation is the parameter in radians, and the
\* units entry reads millimeters.  The download leaves the live scene alone;
\* a frame sets the live meshes, and captureSnapshot its meshes, to the
\* millimetre values as they are
C16_ExportInMetres ==
  [][/\ downloadScene =>
          /\ Len(output') = 1 /\ output'[1].file = "gltf"
          /\ output'[1].units = "millimeters"
          /\ Len(output'[1].nodes) = 2
          /\ \A k \in Slots :
               LET node == output'[1].nodes[k]
               IN /\ "solid" \notin DOMAIN node
                  /\ node.kind = props.primitiveType[k]
                  /\ node.rotation = DegToRad(props.rotation[k])
                  /\ \A axis \in Axes :
                       /\ InMetres(node.scale[axis], props.size[k][axis])
                       /\ InMetres(node.position[axis], props.position[k][axis])
          /\ UNCHANGED meshVars
     /\ useFrame("none") =>
          \A k \in Slots : /\ primitiveRef'[k].scale = props.size[k]
                           /\ primitiveRef'[k].position = props.position[k]
     /\ (captureSnapshot /\ mounted) =>
          \A k \in Slots, axis \in Axes :
            /\ Same(output'[1].nodes[k].scale[axis], Millimetres(props.size[k][axis]))
            /\ Same(output'[1].nodes[k].position[axis],
                    Millimetres(props.position[k][axis]))]_vars

\* A document was exported while the live scene held a result, of a slot
\* whose size and position had been typed in
C16_Witness ==
  /\ output # <<>> /\ output[1].file = "gltf"
  /\ intersectionRef # <<>>
  /\ props.size[1][1] = 500 /\ output[1].nodes[1].scale[1].n = 500
  /\ props.position[1][1] = -500 /\ output[1].nodes[1].position[1].n = -500

\* The tenths of a millimetre of the declared ranges
SizeRange == 10..500
PositionRange == -500..500

\* C17: for every size of 1..50 mm and every position of -50..50 mm, the
\* exported value times 1000 is the millimetre value again; so it is for
\* every size and position component of both nodes of an exported document
C17_RoundTrip ==
  [][downloadScene =>
       /\ \A tenths \in SizeRange :
            LET exported == convertToMeters(Vec(tenths, tenths, tenths))
            IN \A axis \in Axes :
                 Same(Mul(exported[axis], MillimetresPerMetre), Millimetres(tenths))
       /\ \A tenths \in PositionRange :
            LET exported == positionInMeters(Vec(tenths, tenths, tenths))
            IN \A axis \in Axes :
                 Same(Mul(exported[axis], MillimetresPerMetre), Millimetres(tenths))
       /\ \A k \in Slots, axis \in Axes :
            /\ Same(Mul(output'[1].nodes[k].scale[axis], MillimetresPerMetre),
                    Millimetres(props.size[k][axis]))
            /\ Same(Mul(output'[1].nodes[k].position[axis], MillimetresPerMetre),
                    Millimetres(props.position[k][axis]))]_vars

\* A document was exported after a random draw: the three axes of a slot
\* differ, and a position is negative
C17_Witness ==
  /\ output # <<>> /\ output[1].file = "gltf"
  /\ props.size[1] = Vec(200, 300, 400)
  /\ output[1].nodes[1].scale[2].n = 300
  /\ output[1].nodes[1].position[1].n = -100
  /\ output[1].nodes[2].position[1].n = 90

\* C18: with a canvas mounted, the picture captureSnapshot offers is
\* 1024 x 1024 and shows both source primitives of the rendered kinds at the
\* rendered size, rotation and position, both visible whatever the show
\* toggle and the selection are, and the intersection of the solids those
\* parameters give; without a canvas captureSnapshot offers nothing
C18_SnapshotOfParameters ==
  [][captureSnapshot =>
       IF mounted
       THEN /\ Len(output') = 1 /\ output'[1].file = "png"
            /\ output'[1].width = SnapshotSize /\ output'[1].height = SnapshotSize
            /\ \A k \in Slots :
                 LET node == output'[1].nodes[k]
                 IN /\ node.kind = props.primitiveType[k]
                    /\ node.visible
                    /\ node.rotation = DegToRad(props.rotation[k])
                    /\ \A axis \in Axes :
                         /\ Same(node.scale[axis], Millimetres(props.size[k][axis]))
                         /\ Same(node.position[axis],
                                 Millimetres(props.position[k][axis]))
            /\ output'[1].intersection.solid
                 = intersect(SolidOf(props, 1), SolidOf(props, 2))
       ELSE UNCHANGED output]_vars

(***************************************************************************)
(* The boolean intersection                                                *)
(***************************************************************************)
\* The polygons of a solid, their order forgotten
PolygonSet(bsp) == {bsp[i] : i \in 1..Len(bsp)}

\* The Component state s with the kind and the transform parameters of
\* slot 1 and slot 2 exchanged
Exchanged(s) ==
  [s EXCEPT !.primitiveType = <<@[2], @[1]>>, !.size = <<@[2], @[1]>>,
            !.rotation = <<@[2], @[1]>>, !.position = <<@[2], @[1]>>]

C20_UpdateBeforeConversion ==
  [][Recomputation =>
       /\ \A k \in Slots :
            /\ primitiveRef'[k].scale = props.size[k]
            /\ primitiveRef'[k].rotation = DegToRad(props.rotation[k])
            /\ primitiveRef'[k].position = props.position[k]
       /\ intersectionRef' # <<>>
       /\ intersectionRef'[1].solid = intersect(SolidOf(props, 1), SolidOf(props, 2))]_vars

(***************************************************************************)
(* The matrix of a source mesh                                             *)
(***************************************************************************)
\* The solid of slot k as the source mesh is placed after a step
Placed(k) ==
  [kind |-> primitiveGeometry[k].kind, scale |-> primitiveRef[k].scale,
   rotation |-> primitiveRef[k].rotation, position |-> primitiveRef[k].position]

\* C21: a frame builds the solid of each source primitive from the scale,
\* rotation and position that updatePrimitive gave the mesh in that frame,
\* which are the rendered parameters, whatever matrix the mesh had when the
\* frame began; the frame leaves the matrix of each mesh composed from them
C21_MatrixOfThisFrame ==
  [][useFrame("none") =>
       /\ \A k \in Slots :
            /\ Placed(k)' = SolidOf(props, k)
            /\ primitiveRef'[k].matrix.scale = primitiveRef'[k].scale
            /\ primitiveRef'[k].matrix.rotation = primitiveRef'[k].rotation
            /\ primitiveRef'[k].matrix.position = primitiveRef'[k].position
       /\ intersectionRef' # <<>>
       /\ intersectionRef'[1].solid = intersect(Placed(1)', Placed(2)')]_vars

\* A frame has run and left a matrix with each mesh, and the parameters
\* rendered since place a mesh elsewhere: the next frame starts from a
\* matrix that is not the one of its parameters
C21_Witness ==
  /\ mounted /\ intersectionRef # <<>>
  /\ \E k \in Slots :
       /\ primitiveRef[k].matrix.scale = InitialState.size[k]
       /\ primitiveRef[k].matrix.position # props.position[k]
       /\ primitiveRef[k].matrix.rotation # DegToRad(props.rotation[k])

(***************************************************************************)
(* The gizmo and the selection                                             *)
(***************************************************************************)
\* C22: whenever the rendered selection is slot k outside fullscreen mode,
\* the gizmo is mounted, shown and attached to the mesh the ref of slot k
\* points at
C22_GizmoOnSelectedMesh ==
  (mounted /\ props.selectedObject \in Slots /\ ~props.isFullscreen) =>
     /\ controls.mounted /\ controls.visible
     /\ controls.object = MeshObject(props.selectedObject)

\* C23: a drag starts only while the rendered selection is a slot; the drag
\* start and drag end handlers leave the selection alone; from drag start to
\* drag end the rendered selection stays the slot it was, and in no state is
\* a drag in progress while the rendered selection is none
C23_DragKeepsSelection ==
  [][/\ handleMouseDown =>
          /\ props.selectedObject \in Slots
          /\ st'.selectedObject = st.selectedObject
          /\ props'.selectedObject = props.selectedObject
     /\ handleMouseUp =>
          /\ st'.selectedObject = st.selectedObject
          /\ props'.selectedObject = props.selectedObject
     /\ controls.dragging => props'.selectedObject = props.selectedObject
     /\ controls'.dragging => props'.selectedObject \in Slots]_vars

\* C24: the orbit controls are disabled exactly in the states in which a
\* gizmo drag is in progress
C24_OrbitOffWhileDragging ==
  mounted => (orbitEnabled <=> ~controls.dragging)

\* ---------------------------------------------------------------------
\* Texture loads
\* ---------------------------------------------------------------------

\* The source and the result material both carry their loaded texture
TexturesLoaded ==
  mounted /\ materialInstance.texture /\ intersectionMaterialInstance.texture

\* The result mesh and both source primitives carry the texture
TextureOnMeshes ==
  /\ intersectionRef # <<>>
  /\ intersectionRef[1].material.texture
  /\ \A k \in Slots : primitiveRef[k].material.texture

\* C25: once the texture loads of a clearcoat or subsurface material have
\* finished, and for as long as that material stays in use, a later frame
\* shows the result mesh and both source primitives with the texture.
C25_TextureOnEveryMesh ==
  TexturesLoaded ~> (~TexturesLoaded \/ TextureOnMeshes)

\* C25, the part that holds: a frame runs whether or not a load is under
\* way, a result mesh built before the load finished has no texture, and one
\* built after it has the texture.
C25_ResultFollowsLoad ==
  [][useFrame("none") =>
       /\ intersectionRef' # <<>>
       /\ intersectionRef'[1].material.texture = intersectionMaterialInstance.texture]_vars

\* ---------------------------------------------------------------------
\* The source meshes of the scene graph
\* ---------------------------------------------------------------------

\* The source meshes the last step took out of the refs
ReplacedSources == {o \in dropped : o.what = "source"}

\* C26: while the Scene is mounted, the scene graph holds exactly two
\* source meshes, the two the slot refs point at; a source mesh the refs have
\* let go of (the pair replaced on a kind, material or dark mode change) was
\* removed from the scene before the new pair was added.
C26_TwoSourceMeshes ==
  mounted =>
     /\ \A k \in Slots : primitiveRef[k].inScene
     /\ \A o \in ReplacedSources : ~o.inScene

\* The last step replaced the pair of source meshes of a mounted Scene
C26_Witness ==
  /\ mounted
  /\ Cardinality(ReplacedSources) >= 1
  /\ \A k \in Slots : primitiveRef[k].inScene

\* ---------------------------------------------------------------------
\* Visibility of the source meshes
\* ---------------------------------------------------------------------

\* C27: every recomputation leaves source mesh k visible exactly when the
\* rendered showIntersection toggle is on or slot k is the rendered
\* selection, and leaves a result mesh in the scene whatever the toggle and
\* the selection are.
C27_SourceVisibility ==
  [][Recomputation =>
       /\ \A k \in Slots :
            primitiveRef'[k].visible <=>
              (props.showIntersection \/ props.selectedObject = k)
       /\ intersectionRef' # <<>>
       /\ intersectionRef'[1].inScene /\ intersectionRef'[1].visible]_vars

\* A recomputation has left one source mesh shown and the other hidden,
\* with the result in the scene
C27_Witness ==
  /\ mounted /\ ~props.showIntersection
  /\ \E k \in Slots :
       /\ props.selectedObject = k
       /\ primitiveRef[k].visible
       /\ ~primitiveRef[3 - k].visible
  /\ intersectionRef # <<>> /\ intersectionRef[1].inScene

\* ---------------------------------------------------------------------
\* Fullscreen
\* ---------------------------------------------------------------------

\* C28: while the rendered fullscreen flag is on, a click on the canvas
\* changes neither the selection nor the gizmo, whatever it hits, and the
\* gizmo is neither mounted nor visible, whether or not a slot is selected.
C28_FullscreenLocksSelection ==
  [][/\ \A hit \in Slots \cup {null} :
          (onMouseClick(hit) /\ props.isFullscreen) =>
             /\ st'.selectedObject = st.selectedObject
             /\ props'.selectedObject = props.selectedObject
             /\ controls' = controls
     /\ (mounted' /\ props'.isFullscreen) =>
             /\ ~controls'.mounted /\ ~controls'.visible
             /\ controls'.object = "none"]_vars

\* Fullscreen rendered with a slot still selected, and an event handled
\* since fullscreen was entered
C28_Witness ==
  /\ mounted /\ props.isFullscreen /\ st.isFullscreen
  /\ props.selectedObject \in Slots /\ st.selectedObject \in Slots
  /\ pending = 0 /\ events >= 3

\* The Component state without the fullscreen flag and the selection
OutsideFullscreen(s) == [s EXCEPT !.isFullscreen = FALSE, !.selectedObject = null]

\* C29: toggleFullscreen queues the opposite of the rendered fullscreen flag
\* and changes no other Component state but the selection, no mesh, no
\* material and no gizmo: entering fullscreen keeps the selection, leaving it
\* sets the selection to none, so that nothing is selected once fullscreen
\* was entered and left.
C29_ToggleFullscreen ==
  [][toggleFullscreen =>
       /\ st'.isFullscreen = ~props.isFullscreen
       /\ st'.selectedObject = IF props.isFullscreen THEN null ELSE st.selectedObject
       /\ OutsideFullscreen(st') = OutsideFullscreen(st)
       /\ UNCHANGED <<props, meshVars, controls, orbitEnabled, output>>]_vars

\* Fullscreen, entered with a slot selected, has just been left: the queued
\* selection is none
C29_Witness ==
  /\ mounted /\ pending = 1
  /\ props.isFullscreen /\ props.selectedObject \in Slots
  /\ ~st.isFullscreen /\ st.selectedObject = null

\* ---------------------------------------------------------------------
\* Edits of the panel
\* ---------------------------------------------------------------------

\* vector with component axis replaced by value in slot k (slot 1 for index
\* 1, slot 2 otherwise), every other vector and component as it is
Replaced(vectors, index, axis, value) ==
  [k \in Slots |->
     [a \in 1..3 |->
        IF k = (IF index = 1 THEN 1 ELSE 2) /\ a = axis THEN value ELSE vectors[k][a]]]

\* The Component state without one of its fields
Without(s, field) == [f \in (DOMAIN s) \ {field} |-> s[f]]

\* C30: handleSizeChange, handleRotationChange and handleTransformChange
\* queue the size, rotation or position of the slot with component axis
\* replaced by value, on top of the state already queued, and change nothing
\* else; the render that follows commits every edit queued before it.
C30_EditOneComponent ==
  [][/\ \A index \in Slots, axis \in EditAxes :
          /\ \A value \in SizeInputs :
               handleSizeChange(index, axis, value) =>
                  /\ st'.size = Replaced(st.size, index, axis, value)
                  /\ Without(st', "size") = Without(st, "size")
                  /\ UNCHANGED <<props, meshVars, controls, orbitEnabled, output>>
          /\ \A value \in RotationInputs :
               handleRotationChange(index, axis, value) =>
                  /\ st'.rotation = Replaced(st.rotation, index, axis, value)
                  /\ Without(st', "rotation") = Without(st, "rotation")
                  /\ UNCHANGED <<props, meshVars, controls, orbitEnabled, output>>
          /\ \A value \in ExportPositionInputs :
               handleTransformChange(index, axis, value) =>
                  /\ st'.position = Replaced(st.position, index, axis, value)
                  /\ Without(st', "position") = Without(st, "position")
                  /\ UNCHANGED <<props, meshVars, controls, orbitEnabled, output>>
     /\ Render =>
          /\ props'.size = st.size
          /\ props'.rotation = st.rotation
          /\ props'.position = st.position]_vars

\* Two edits of two components of one vector are queued, on top of each
\* other, and no render has committed either
C30_Witness ==
  /\ mounted /\ pending = 2
  /\ \E k \in Slots :
       /\ props.selectedObject = k
       /\ props.size[k] = InitialState.size[k]
       /\ \A axis \in EditAxes :
            st.size[k][axis] \in SizeInputs /\ st.size[k][axis] # props.size[k][axis]

=============================================================================
